---- MODULE Spec2Model ----
(***************************************************************************)
(* Model of roles/openshift_health_checker/library/aos_version.py: the     *)
(* Ansible module that inspects the OpenShift packages yum reports as      *)
(* available and fails when they do not fit the requested release.         *)
(*                                                                         *)
(* A Python str is modelled as a sequence of one-character strings when    *)
(* the code takes it apart (versions, the requested release), and as a     *)
(* TLA+ string when the code only concatenates or compares it (package     *)
(* names, message text).  Version strings are drawn from pools of          *)
(* dot-separated decimal segments, so int() never raises.                  *)
(***************************************************************************)
EXTENDS Naturals, Sequences, FiniteSets, TLC

VARIABLES
    IMPORT_EXCEPTION,             \* module global: the yum import failed
    rpm_prefix,                   \* module.params['rpm_prefix']
    requested_openshift_release,  \* module.params[...], a character sequence
    openshift_deployment_type,    \* module.params['openshift_deployment_type']
    sack_error,                   \* yum: returnPackages raises PackageSackError
    available,                    \* yum: the records returnPackages returns
    pc,                           \* position in main() (or in the test call)
    expected_pkgs,                \* main: the set of expected names
    pkgs,                         \* main: the list returned by the retriever
    excinfo,                      \* the exception raised, NoException if none
    result,                       \* what fail_json / exit_json reported
    run,                          \* which invocation of the task this is
    first_run                     \* what the first invocation raised and reported

vars == <<IMPORT_EXCEPTION, rpm_prefix, requested_openshift_release,
          openshift_deployment_type, sack_error, available, pc, expected_pkgs,
          pkgs, excinfo, result, run, first_run>>

inputs == <<IMPORT_EXCEPTION, rpm_prefix, requested_openshift_release,
            openshift_deployment_type, sack_error, available>>

-----------------------------------------------------------------------------
(* Bounds and input pools *)

MaxPkgs == 4
MaxTestPkgs == 3
MaxRerunPkgs == 3

V_3_4_1 == <<"3", ".", "4", ".", "1">>
V_3_5_0 == <<"3", ".", "5", ".", "0">>
V_3_10_0 == <<"3", ".", "1", "0", ".", "0">>
V_4 == <<"4">>
R_none == <<>>
R_3_4 == <<"3", ".", "4">>
R_3_10 == <<"3", ".", "1", "0">>

PkgNames == {"origin", "origin-master", "origin-node", "origin-docs"}
MainVersions == {V_3_4_1, V_3_5_0, V_4}
MainReleases == {R_none, R_3_4}
TestVersions == {V_3_4_1, V_3_5_0, V_3_10_0, V_4}
TestReleases == {R_3_4, R_3_10}
DeploymentTypes == {"openshift-enterprise", "origin"}
Prefixes == {"", "origin"}
YumErrorText == "No Package Matching"

Records(names, versions) == [name : names, version : versions]

BoundedSeq(S, n) == UNION {[1..k -> S] : k \in 0..n}

-----------------------------------------------------------------------------
(* Python built-ins used by the module *)

Range(s) == {s[i] : i \in DOMAIN s}

Min(a, b) == IF a < b THEN a ELSE b

\* seq[:n]
Take(s, n) == SubSeq(s, 1, Min(n, Len(s)))

\* str.split('.')
RECURSIVE Split(_)
Split(s) ==
    IF s = <<>> THEN << <<>> >>
    ELSE LET rest == Split(Tail(s))
         IN  IF Head(s) = "." THEN << <<>> >> \o rest
             ELSE << <<Head(s)>> \o Head(rest) >> \o Tail(rest)

\* '.'.join(segments)
RECURSIVE Join(_)
Join(segs) ==
    IF segs = <<>> THEN <<>>
    ELSE IF Len(segs) = 1 THEN segs[1]
    ELSE segs[1] \o <<".">> \o Join(Tail(segs))

\* str.count('.')
RECURSIVE Count(_)
Count(s) ==
    IF s = <<>> THEN 0
    ELSE (IF Head(s) = "." THEN 1 ELSE 0) + Count(Tail(s))

DigitVal(c) ==
    CASE c = "0" -> 0 [] c = "1" -> 1 [] c = "2" -> 2 [] c = "3" -> 3
      [] c = "4" -> 4 [] c = "5" -> 5 [] c = "6" -> 6 [] c = "7" -> 7
      [] c = "8" -> 8 [] c = "9" -> 9

DigitChar(d) ==
    CASE d = 0 -> "0" [] d = 1 -> "1" [] d = 2 -> "2" [] d = 3 -> "3"
      [] d = 4 -> "4" [] d = 5 -> "5" [] d = 6 -> "6" [] d = 7 -> "7"
      [] d = 8 -> "8" [] d = 9 -> "9"

\* int(segment), for a non-empty segment of decimal digits
RECURSIVE Int(_)
Int(seg) ==
    IF Len(seg) = 1 THEN DigitVal(seg[1])
    ELSE 10 * Int(SubSeq(seg, 1, Len(seg) - 1)) + DigitVal(seg[Len(seg)])

\* str(n), for n >= 0
RECURSIVE Str(_)
Str(n) ==
    IF n < 10 THEN <<DigitChar(n)>>
    ELSE Str(n \div 10) \o <<DigitChar(n % 10)>>

\* [int(segment) for segment in s.split(".")]
IntList(s) == LET segs == Split(s) IN [i \in DOMAIN segs |-> Int(segs[i])]

\* list > list: element-wise, left to right; a proper prefix is the smaller
RECURSIVE ListGreater(_, _)
ListGreater(a, b) ==
    IF a = <<>> THEN FALSE
    ELSE IF b = <<>> THEN TRUE
    ELSE IF a[1] # b[1] THEN a[1] > b[1]
    ELSE ListGreater(Tail(a), Tail(b))

\* the characters of a Python str as one piece of text
RECURSIVE Text(_)
Text(s) == IF s = <<>> THEN "" ELSE Head(s) \o Text(Tail(s))

\* '\n'.join(lines)
RECURSIVE JoinLines(_)
JoinLines(lines) ==
    IF lines = <<>> THEN ""
    ELSE IF Len(lines) = 1 THEN lines[1]
    ELSE lines[1] \o "\n" \o JoinLines(Tail(lines))

\* the orders in which iterating a set (or the keys of a dict) may yield it:
\* the language leaves the order to the hash table
SetIterations(S) ==
    {s \in [1..Cardinality(S) -> S] : Range(s) = S}

\* ['  ' + name for name in problem_pkgs]
Indented(names) == [i \in DOMAIN names |-> "  " \o names[i]]

-----------------------------------------------------------------------------
(* Exceptions *)

NoException == [type |-> "None"]
NoResult == [pending |-> TRUE]

\* variant: __init__ does not keep the list it is given
AosVersionException_list_dropped(type, message, problem_pkgs) ==
    [type |-> type, message |-> message, problem_pkgs |-> <<>>]

AosVersionException(type, message, problem_pkgs) ==
    [type |-> type, message |-> message, problem_pkgs |-> problem_pkgs]

RetrievalFailure(cause) ==
    AosVersionException("AosVersionException",
        JoinLines(<<"Unable to find any OpenShift packages.",
                    "Check your subscription and repo settings.",
                    cause>>),
        "None")

PreciseVersionNotFound(requested_release, not_found) ==
    AosVersionException("PreciseVersionNotFound",
        JoinLines(<<"Not all of the required packages are available at requested version "
                      \o Text(requested_release) \o ":">>
                  \o Indented(not_found)
                  \o <<"Please check your subscriptions and enabled repositories.">>),
        not_found)

FoundHigherVersion(requested_release, higher_found) ==
    AosVersionException("FoundHigherVersion",
        JoinLines(<<"Some required package(s) are available at a version",
                    "that is higher than requested " \o Text(requested_release) \o ":">>
                  \o Indented(higher_found)
                  \o <<"This will prevent installing the version you requested.",
                       "Please check your enabled repositories or adjust openshift_release.">>),
        higher_found)

FoundMultiRelease(multi_found) ==
    AosVersionException("FoundMultiRelease",
        JoinLines(<<"Multiple minor versions of these packages are available">>
                  \o Indented(multi_found)
                  \o <<"There should only be one OpenShift release repository enabled at a time.">>),
        multi_found)

-----------------------------------------------------------------------------
(* The checkers.  `order` is the order in which the interpreter iterates   *)
(* the set (or the dict) the error list is built from.                     *)

Front(s) == SubSeq(s, 1, Len(s) - 1)
Last(s) == s[Len(s)]

\* '.'.join(pkg.version.split('.')[:requested_openshift_release.count('.') + 1])
match_version(version, requested_release) ==
    Join(Take(Split(version), Count(requested_release) + 1))

\* variant: a record that does not match clears the mark an earlier one set
precise_step_last_wins(found, pkg, expected, requested_release) ==
    IF pkg.name \notin expected THEN found
    ELSE IF match_version(pkg.version, requested_release) = requested_release
         THEN found \cup {pkg.name}
         ELSE found \ {pkg.name}

\* lines 122-128: one turn of the loop over pkgs; `found` holds the keys of
\* pkgs_precise_version_found
precise_step(found, pkg, expected, requested_release) ==
    IF pkg.name \notin expected THEN found
    ELSE IF match_version(pkg.version, requested_release) = requested_release
         THEN found \cup {pkg.name}
         ELSE found

\* the keys of pkgs_precise_version_found after the scan of pkgs
RECURSIVE pkgs_precise_version_found(_, _, _)
pkgs_precise_version_found(pkglist, expected, requested_release) ==
    IF pkglist = <<>> THEN {}
    ELSE precise_step(pkgs_precise_version_found(Front(pkglist), expected, requested_release),
                      Last(pkglist), expected, requested_release)

not_found(order, found) == SelectSeq(order, LAMBDA name : name \notin found)

check_precise_version_found(pkglist, expected, requested_release, order) ==
    LET missing == not_found(order, pkgs_precise_version_found(pkglist, expected, requested_release))
    IN  IF missing # <<>>
        THEN PreciseVersionNotFound(requested_release, missing)
        ELSE NoException

\* variant: >= in place of >
too_high_or_equal(version, req_release_arr) ==
    ~ListGreater(req_release_arr, Take(version, Len(req_release_arr)))

\* version[:len(req_release_arr)] > req_release_arr
too_high(version, req_release_arr) ==
    ListGreater(Take(version, Len(req_release_arr)), req_release_arr)

\* variant: the version recorded earlier is not compared with
higher_than_seen_always(version, seen, name) == TRUE

\* version > higher_version_for_pkg.get(pkg.name, [])
higher_than_seen(version, seen, name) ==
    ListGreater(version, IF name \in DOMAIN seen THEN seen[name] ELSE <<>>)

\* variant: the test of pkg.name against expected_pkgs is missing
higher_step_any_name(seen, pkg, expected, req_release_arr) ==
    LET version == IntList(pkg.version)
    IN  IF too_high(version, req_release_arr) /\ higher_than_seen(version, seen, pkg.name)
        THEN [name \in DOMAIN seen \cup {pkg.name} |->
                 IF name = pkg.name THEN version ELSE seen[name]]
        ELSE seen

\* lines 155-161: one turn of the loop over pkgs; `seen` is higher_version_for_pkg
higher_step(seen, pkg, expected, req_release_arr) ==
    LET version == IntList(pkg.version)
    IN  IF pkg.name \notin expected THEN seen
        ELSE IF too_high(version, req_release_arr) /\ higher_than_seen(version, seen, pkg.name)
             THEN [name \in DOMAIN seen \cup {pkg.name} |->
                      IF name = pkg.name THEN version ELSE seen[name]]
             ELSE seen

\* higher_version_for_pkg after the scan of pkgs: a dict name -> integer list
RECURSIVE higher_version_for_pkg(_, _, _)
higher_version_for_pkg(pkglist, expected, req_release_arr) ==
    IF pkglist = <<>> THEN [name \in {} |-> <<>>]
    ELSE higher_step(higher_version_for_pkg(Front(pkglist), expected, req_release_arr),
                     Last(pkglist), expected, req_release_arr)

\* '.'.join(str(segment) for segment in version)
version_string(version) == Text(Join([i \in DOMAIN version |-> Str(version[i])]))

higher_found(order, higher) ==
    [i \in DOMAIN order |-> order[i] \o "-" \o version_string(higher[order[i]])]

check_higher_version_found(pkglist, expected, requested_release, order) ==
    LET higher == higher_version_for_pkg(pkglist, expected, IntList(requested_release))
    IN  IF DOMAIN higher # {}
        THEN FoundHigherVersion(requested_release, higher_found(order, higher))
        ELSE NoException

\* '.'.join(pkg.version.split('.')[:2])
minor_release(version) == Join(Take(Split(version), 2))

\* lines 184-187: one turn of the loop over pkgs; `seen` is pkgs_by_name_version
multi_step(seen, pkg) ==
    [name \in DOMAIN seen \cup {pkg.name} |->
        (IF name \in DOMAIN seen THEN seen[name] ELSE {})
        \cup (IF name = pkg.name THEN {minor_release(pkg.version)} ELSE {})]

\* pkgs_by_name_version after the scan of pkgs: a dict name -> set of x.y seen
RECURSIVE pkgs_by_name_version(_)
pkgs_by_name_version(pkglist) ==
    IF pkglist = <<>> THEN [name \in {} |-> {}]
    ELSE multi_step(pkgs_by_name_version(Front(pkglist)), Last(pkglist))

\* lines 190-192: the names listed, in the order the set is iterated
multi_found(order, by_name) ==
    SelectSeq(order, LAMBDA name : name \in DOMAIN by_name /\ Cardinality(by_name[name]) > 1)

check_multi_minor_release(pkglist, order) ==
    LET multi == multi_found(order, pkgs_by_name_version(pkglist))
    IN  IF multi # <<>> THEN FoundMultiRelease(multi) ELSE NoException

\* the orders in which _check_higher_version_found may list the dict's items
HigherOrders(pkglist, expected, requested_release) ==
    SetIterations(DOMAIN higher_version_for_pkg(pkglist, expected, IntList(requested_release)))

-----------------------------------------------------------------------------
(* main() *)

ExpectedPkgs(prefix) == {prefix, prefix \o "-master", prefix \o "-node"}

fail_json(msg) == [failed |-> TRUE, msg |-> msg]
exit_json(changed) == [changed |-> changed]

\* lines 75-76: except AosVersionException as excinfo: module.fail_json(msg=str(excinfo))
Handle(outcome, next) ==
    /\ excinfo' = outcome
    /\ IF outcome # NoException
       THEN /\ result' = fail_json(outcome.message)
            /\ pc' = "failed"
       ELSE /\ result' = result
            /\ pc' = next

\* variant: the version checkers run without a requested release
version_checks_requested_always(requested_release) == TRUE

\* line 70: if requested_openshift_release:
version_checks_requested(requested_release) == requested_release # <<>>

\* variant: the multi-minor check runs for every deployment type
multi_minor_applies_always(deployment_type) == TRUE

\* line 73: if module.params['openshift_deployment_type'] in ['openshift-enterprise']:
multi_minor_applies(deployment_type) == deployment_type \in {"openshift-enterprise"}

FailImport ==
    /\ pc = "start"
    /\ IMPORT_EXCEPTION
    /\ result' = fail_json("aos_version module could not import yum: No module named yum")
    /\ pc' = "failed"
    /\ UNCHANGED <<inputs, expected_pkgs, pkgs, excinfo, run, first_run>>

FailPrefix ==
    /\ pc = "start"
    /\ ~IMPORT_EXCEPTION
    /\ rpm_prefix = ""
    /\ result' = fail_json("rpm_prefix must not be empty")
    /\ pc' = "failed"
    /\ UNCHANGED <<inputs, expected_pkgs, pkgs, excinfo, run, first_run>>

Retrieve ==
    /\ pc = "start"
    /\ ~IMPORT_EXCEPTION
    /\ rpm_prefix # ""
    /\ expected_pkgs' = ExpectedPkgs(rpm_prefix)
    /\ IF sack_error
       THEN /\ Handle(RetrievalFailure(YumErrorText), "failed")
            /\ pkgs' = pkgs
       ELSE /\ pkgs' = available
            /\ Handle(NoException,
                      IF version_checks_requested(requested_openshift_release)
                      THEN "precise" ELSE "multi")
    /\ UNCHANGED <<inputs, run, first_run>>

CheckPrecise ==
    /\ pc = "precise"
    /\ \E order \in SetIterations(expected_pkgs) :
          Handle(check_precise_version_found(pkgs, expected_pkgs,
                                             requested_openshift_release, order),
                 "higher")
    /\ UNCHANGED <<inputs, expected_pkgs, pkgs, run, first_run>>

\* variant: the call of _check_higher_version_found is missing
CheckHigher_not_called ==
    /\ pc = "higher"
    /\ pc' = "multi"
    /\ UNCHANGED <<inputs, expected_pkgs, pkgs, excinfo, result, run, first_run>>

CheckHigher ==
    /\ pc = "higher"
    /\ \E order \in HigherOrders(pkgs, expected_pkgs, requested_openshift_release) :
          Handle(check_higher_version_found(pkgs, expected_pkgs,
                                            requested_openshift_release, order),
                 "multi")
    /\ UNCHANGED <<inputs, expected_pkgs, pkgs, run, first_run>>

CheckMultiMinor ==
    /\ pc = "multi"
    /\ multi_minor_applies(openshift_deployment_type)
    /\ \E order \in SetIterations(expected_pkgs) :
          Handle(check_multi_minor_release(pkgs, order), "exit")
    /\ UNCHANGED <<inputs, expected_pkgs, pkgs, run, first_run>>

ExitJson ==
    /\ \/ pc = "exit"
       \/ pc = "multi" /\ ~multi_minor_applies(openshift_deployment_type)
    /\ result' = exit_json(FALSE)
    /\ pc' = "exited"
    /\ UNCHANGED <<inputs, expected_pkgs, pkgs, excinfo, run, first_run>>

Main == FailImport \/ FailPrefix \/ Retrieve \/ CheckPrecise \/ CheckHigher
           \/ CheckMultiMinor \/ ExitJson

Ended == pc \in {"failed", "exited"}

InitTask ==
    /\ IMPORT_EXCEPTION \in BOOLEAN
    /\ rpm_prefix \in Prefixes
    /\ requested_openshift_release \in MainReleases
    /\ openshift_deployment_type \in DeploymentTypes
    /\ sack_error \in BOOLEAN
    \* the query is for the expected names, so only their records come back
    /\ available \in BoundedSeq(Records(ExpectedPkgs("origin"), MainVersions), MaxPkgs)
    /\ sack_error => available = <<>>
    \* main() stops before the query: what yum would answer plays no part
    /\ (IMPORT_EXCEPTION \/ rpm_prefix = "") => available = <<>> /\ ~sack_error
    /\ pc = "start"
    /\ expected_pkgs = {}
    /\ pkgs = <<>>
    /\ excinfo = NoException
    /\ result = NoResult
    /\ run = 1
    /\ first_run = NoResult

Init == InitTask

Next == Main

Spec == Init /\ [][Next]_vars

-----------------------------------------------------------------------------
(* The task run twice against an unchanged repository: the second          *)
(* invocation gets the same parameters and the same records, which yum may *)
(* return in another order.                                                *)

Reorderings(s) ==
    {t \in [DOMAIN s -> Range(s)] :
        \A r \in Range(s) : Cardinality({i \in DOMAIN s : t[i] = r})
                            = Cardinality({i \in DOMAIN s : s[i] = r})}

Rerun ==
    /\ Ended
    /\ run = 1
    /\ run' = 2
    /\ first_run' = [result |-> result, excinfo |-> excinfo]
    /\ available' \in Reorderings(available)
    /\ pc' = "start"
    /\ expected_pkgs' = {}
    /\ pkgs' = <<>>
    /\ excinfo' = NoException
    /\ result' = NoResult
    /\ UNCHANGED <<IMPORT_EXCEPTION, rpm_prefix, requested_openshift_release,
                   openshift_deployment_type, sack_error>>

InitTwice == InitTask /\ Len(available) <= MaxRerunPkgs

NextTwice == Main \/ Rerun

SpecTwice == InitTwice /\ [][NextTwice]_vars

-----------------------------------------------------------------------------
(* The checkers called directly on a package list, as the unit tests call  *)
(* them.                                                                   *)

InitTest ==
    /\ IMPORT_EXCEPTION = FALSE
    /\ rpm_prefix = "origin"
    /\ requested_openshift_release \in TestReleases
    /\ openshift_deployment_type = "origin"
    /\ sack_error = FALSE
    /\ available = <<>>
    /\ pc = "test"
    /\ expected_pkgs = ExpectedPkgs(rpm_prefix)
    /\ pkgs \in BoundedSeq(Records(PkgNames, TestVersions), MaxTestPkgs)
    /\ excinfo = NoException
    /\ result = NoResult
    /\ run = 1
    /\ first_run = NoResult

TestPrecise ==
    /\ pc = "test"
    /\ \E order \in SetIterations(expected_pkgs) :
          excinfo' = check_precise_version_found(pkgs, expected_pkgs,
                                                 requested_openshift_release, order)
    /\ pc' = "tested_precise"
    /\ UNCHANGED <<inputs, expected_pkgs, pkgs, result, run, first_run>>

TestHigher ==
    /\ pc = "test"
    /\ \E order \in HigherOrders(pkgs, expected_pkgs, requested_openshift_release) :
          excinfo' = check_higher_version_found(pkgs, expected_pkgs,
                                                requested_openshift_release, order)
    /\ pc' = "tested_higher"
    /\ UNCHANGED <<inputs, expected_pkgs, pkgs, result, run, first_run>>

TestMultiMinor ==
    /\ pc = "test"
    /\ \E order \in SetIterations(expected_pkgs) :
          excinfo' = check_multi_minor_release(pkgs, order)
    /\ pc' = "tested_multi"
    /\ UNCHANGED <<inputs, expected_pkgs, pkgs, result, run, first_run>>

NextTest == TestPrecise \/ TestHigher \/ TestMultiMinor

SpecTest == InitTest /\ [][NextTest]_vars

-----------------------------------------------------------------------------
(* What the claims speak of, stated on the records themselves *)

CheckerFailures == {"PreciseVersionNotFound", "FoundHigherVersion", "FoundMultiRelease"}

Enterprise == openshift_deployment_type = "openshift-enterprise"
ReleaseRequested == requested_openshift_release # <<>>

\* main() got as far as the package query
ReachedChecks == ~IMPORT_EXCEPTION /\ rpm_prefix # ""

VersionsOf(name, pkglist) ==
    {pkglist[i].version : i \in {j \in DOMAIN pkglist : pkglist[j].name = name}}

\* the version cut to as many segments as the request has
AtPrecision(version, release) == Take(Split(version), Len(Split(release)))

Ints(segs) == [i \in DOMAIN segs |-> Int(segs[i])]

\* a above b, segment by segment as integers; a proper prefix is below
LexGreater(a, b) ==
    \E k \in 1..Len(a) :
        /\ \A j \in 1..(k - 1) : j <= Len(b) /\ a[j] = b[j]
        /\ k > Len(b) \/ a[k] > b[k]

MatchesRequest(version, release) == AtPrecision(version, release) = Split(release)

AboveRequest(version, release) ==
    LexGreater(Ints(AtPrecision(version, release)), Ints(Split(release)))

PreciseMissing(pkglist, expected, release) ==
    {name \in expected : ~\E v \in VersionsOf(name, pkglist) : MatchesRequest(v, release)}

TooHighVersions(name, pkglist, release) ==
    {v \in VersionsOf(name, pkglist) : AboveRequest(v, release)}

HigherNames(pkglist, expected, release) ==
    {name \in expected : TooHighVersions(name, pkglist, release) # {}}

MinorPrefixes(name, pkglist) ==
    {Take(Split(v), 2) : v \in VersionsOf(name, pkglist)}

MultiNames(pkglist, expected) ==
    {name \in expected : Cardinality(MinorPrefixes(name, pkglist)) > 1}

NoDuplicates(list) == Cardinality(Range(list)) = Len(list)

\* the first check, in the order of main(), that the input violates
FirstViolation ==
    IF sack_error THEN "AosVersionException"
    ELSE IF ReleaseRequested
            /\ PreciseMissing(available, ExpectedPkgs(rpm_prefix),
                              requested_openshift_release) # {}
         THEN "PreciseVersionNotFound"
    ELSE IF ReleaseRequested
            /\ HigherNames(available, ExpectedPkgs(rpm_prefix),
                           requested_openshift_release) # {}
         THEN "FoundHigherVersion"
    ELSE IF Enterprise /\ MultiNames(available, ExpectedPkgs(rpm_prefix)) # {}
         THEN "FoundMultiRelease"
    ELSE "None"

-----------------------------------------------------------------------------
(* C1 *)

\* C1 as stated: when the task fails on one of the three checker violations,
\* the failure main() reports carries the list of offending packages
\* (problem_pkgs) next to the message.
C1_ResultExposesProblemPkgs ==
    (pc = "failed" /\ excinfo.type \in CheckerFailures) =>
        /\ "problem_pkgs" \in DOMAIN result
        /\ result.problem_pkgs = excinfo.problem_pkgs

\* C1 amended: when the task fails on one of the three checker violations, the
\* exception raised carries the non-empty list of offending packages, and the
\* failure main() reports consists of the message text str(excinfo) alone.
C1_OnlyExceptionCarriesProblemPkgs ==
    (pc = "failed" /\ excinfo.type \in CheckerFailures) =>
        /\ excinfo.problem_pkgs # <<>>
        /\ NoDuplicates(excinfo.problem_pkgs)
        /\ DOMAIN result = {"failed", "msg"}
        /\ result.failed
        /\ result.msg = excinfo.message

C1_Witness ==
    /\ pc = "failed"
    /\ excinfo.type = "FoundHigherVersion"
    /\ Len(excinfo.problem_pkgs) = 1

-----------------------------------------------------------------------------
(* C3 *)

\* C3 as stated: when the query yields no record of an expected package, the
\* task fails with the retrieval failure, whatever release and deployment
\* type were given.
C3_NoRecordsIsRetrievalFailure ==
    (Ended /\ ReachedChecks
       /\ \A name \in ExpectedPkgs(rpm_prefix) : VersionsOf(name, available) = {}) =>
        /\ pc = "failed"
        /\ excinfo.type = "AosVersionException"
        /\ result = fail_json(RetrievalFailure(YumErrorText).message)

-----------------------------------------------------------------------------
(* C4 *)

-----------------------------------------------------------------------------
(* C5 *)

\* C5: with an empty requested release neither version checker runs: the task
\* succeeds exactly when the query does not raise and, under
\* openshift-enterprise, no expected package spans two minor releases.
C5_EmptyReleaseSkipsVersionChecks ==
    (Ended /\ ReachedChecks /\ ~ReleaseRequested) =>
        /\ excinfo.type \notin {"PreciseVersionNotFound", "FoundHigherVersion"}
        /\ pc = "exited" <=>
              (~sack_error /\ (Enterprise => MultiNames(available, expected_pkgs) = {}))

\* success although every available version is one a requested release would
\* reject
C5_Witness ==
    /\ pc = "exited"
    /\ ~ReleaseRequested
    /\ Enterprise
    /\ Len(pkgs) = MaxPkgs
    /\ \A i \in DOMAIN pkgs : pkgs[i].version = V_4

-----------------------------------------------------------------------------
(* C8 *)

\* C8: the multi-minor check runs only under openshift-enterprise.  A
\* FoundMultiRelease failure occurs under that type only and lists exactly the
\* expected packages with more than one major.minor prefix (the whole version
\* when it has fewer than two segments); under that type the task never
\* succeeds while such a package exists.
C8_MultiMinorOnlyForEnterprise ==
    /\ (pc = "failed" /\ excinfo.type = "FoundMultiRelease") =>
          /\ Enterprise
          /\ Range(excinfo.problem_pkgs) = MultiNames(pkgs, expected_pkgs)
          /\ NoDuplicates(excinfo.problem_pkgs)
    /\ (pc = "exited" /\ Enterprise) => MultiNames(pkgs, expected_pkgs) = {}

\* a one-segment version next to a three-segment one of the same package
C8_Witness ==
    /\ pc = "failed"
    /\ excinfo.type = "FoundMultiRelease"
    /\ \E i \in DOMAIN pkgs : pkgs[i].version = V_4 /\ pkgs[i].name \in Range(excinfo.problem_pkgs)
    /\ Len(excinfo.problem_pkgs) = 2

-----------------------------------------------------------------------------
(* C9 *)

SecondRunEnded == run = 2 /\ Ended

-----------------------------------------------------------------------------
(* The checkers called on their own *)

Raised(type) == excinfo # NoException /\ excinfo.type = type

\* the entry of the FoundHigherVersion list for a package and a version of it
HigherEntry(name, version) == name \o "-" \o Text(version)

\* the package is named in the FoundHigherVersion list
Listed(name) ==
    /\ Raised("FoundHigherVersion")
    /\ \E i \in DOMAIN excinfo.problem_pkgs :
          \E v \in VersionsOf(name, pkgs) : excinfo.problem_pkgs[i] = HigherEntry(name, v)

\* the highest of a non-empty set of versions, as lists of integers
Highest(versions) ==
    CHOOSE v \in versions :
        \A w \in versions : ~LexGreater(Ints(Split(w)), Ints(Split(v)))

-----------------------------------------------------------------------------
(* C2 *)

\* C2 as stated: an expected package with an available version equal to the
\* request at the requested precision is never listed by the higher-version
\* checker.
C2_NotListedWhenRequestedVersionAvailable ==
    pc = "tested_higher" =>
        \A name \in expected_pkgs :
            (\E v \in VersionsOf(name, pkgs) : MatchesRequest(v, requested_openshift_release))
                => ~Listed(name)

\* C2 amended: the higher-version checker lists an expected package exactly
\* when at least one of its available versions is strictly higher than the
\* request at the requested precision, whether or not another of its versions
\* equals the request; it raises exactly when it lists a package.
C2_ListedIffSomeVersionHigher ==
    pc = "tested_higher" =>
        /\ \A name \in PkgNames :
              Listed(name) <=>
                  /\ name \in expected_pkgs
                  /\ TooHighVersions(name, pkgs, requested_openshift_release) # {}
        /\ Raised("FoundHigherVersion") <=>
              HigherNames(pkgs, expected_pkgs, requested_openshift_release) # {}
        /\ excinfo = NoException \/ Raised("FoundHigherVersion")

\* a package listed although the requested version of it is available too
C2_Witness ==
    /\ pc = "tested_higher"
    /\ \E name \in expected_pkgs :
          /\ Listed(name)
          /\ \E v \in VersionsOf(name, pkgs) : MatchesRequest(v, requested_openshift_release)

-----------------------------------------------------------------------------
(* C6 *)

\* C6: the precise-version checker raises exactly when some expected package
\* has no record whose version, cut to the request's number of segments,
\* equals the request, and the list it carries names exactly those packages,
\* each once; one matching version of a package suffices.
C6_PreciseListsExactlyTheMissing ==
    pc = "tested_precise" =>
        /\ Raised("PreciseVersionNotFound") <=>
              PreciseMissing(pkgs, expected_pkgs, requested_openshift_release) # {}
        /\ excinfo = NoException \/ Raised("PreciseVersionNotFound")
        /\ Raised("PreciseVersionNotFound") =>
              /\ Range(excinfo.problem_pkgs)
                    = PreciseMissing(pkgs, expected_pkgs, requested_openshift_release)
              /\ NoDuplicates(excinfo.problem_pkgs)

\* a package with a matching and a non-matching version is left out of the
\* list, which names the other two
C6_Witness ==
    /\ pc = "tested_precise"
    /\ Raised("PreciseVersionNotFound")
    /\ Len(excinfo.problem_pkgs) = 2
    /\ \E name \in expected_pkgs \ Range(excinfo.problem_pkgs) :
          /\ Cardinality(VersionsOf(name, pkgs)) = 2
          /\ ~MatchesRequest(pkgs[Len(pkgs)].version, requested_openshift_release)
          /\ pkgs[Len(pkgs)].name = name

-----------------------------------------------------------------------------
(* C7 *)

\* C7: for each expected package the higher-version checker reports one entry,
\* and its version is the highest, as lists of integers (3.10 above 3.9), of
\* the package's versions that are above the request at the requested
\* precision, in whatever order the records are scanned.
C7_ReportsHighestTooHighVersion ==
    (pc = "tested_higher" /\ Raised("FoundHigherVersion")) =>
        /\ Range(excinfo.problem_pkgs) =
              {HigherEntry(name, Highest(TooHighVersions(name, pkgs, requested_openshift_release))) :
                  name \in HigherNames(pkgs, expected_pkgs, requested_openshift_release)}
        /\ NoDuplicates(excinfo.problem_pkgs)

\* 3.10.0 reported for a package that also has 3.5.0 and a version that is
\* not too high, the lower ones scanned after it
C7_Witness ==
    /\ pc = "tested_higher"
    /\ requested_openshift_release = R_3_4
    /\ excinfo.type = "FoundHigherVersion"
    /\ excinfo.problem_pkgs = <<"origin-master-3.10.0">>
    /\ pkgs = <<[name |-> "origin-master", version |-> V_3_10_0],
                [name |-> "origin-master", version |-> V_3_5_0],
                [name |-> "origin-master", version |-> V_3_4_1]>>

-----------------------------------------------------------------------------
(* C10 *)

ExpectedOnly(pkglist, expected) == SelectSeq(pkglist, LAMBDA pkg : pkg.name \in expected)

\* pass or fail, and the names (entries) the error carries
Verdict(outcome) ==
    IF outcome = NoException THEN <<"None", {}>>
    ELSE <<outcome.type, Range(outcome.problem_pkgs)>>

\* C10: records of packages outside the expected set never influence a
\* checker: each checker's verdict on a list is its verdict on the list with
\* those records removed.
C10_UnexpectedRecordsIgnored ==
    LET kept == ExpectedOnly(pkgs, expected_pkgs)
        anyorder == CHOOSE order \in SetIterations(expected_pkgs) : TRUE
    IN  /\ pc = "tested_precise" =>
              Verdict(excinfo) =
                  Verdict(check_precise_version_found(kept, expected_pkgs,
                              requested_openshift_release, anyorder))
        /\ pc = "tested_higher" =>
              Verdict(excinfo) =
                  Verdict(check_higher_version_found(kept, expected_pkgs,
                              requested_openshift_release,
                              CHOOSE order \in HigherOrders(kept, expected_pkgs,
                                                            requested_openshift_release) : TRUE))
        /\ pc = "tested_multi" =>
              Verdict(excinfo) = Verdict(check_multi_minor_release(kept, anyorder))

\* the multi-minor checker passes a list in which only a package outside the
\* expected set spans two minor releases
C10_Witness ==
    /\ pc = "tested_multi"
    /\ excinfo = NoException
    /\ \E name \in PkgNames \ expected_pkgs : Cardinality(MinorPrefixes(name, pkgs)) > 1
    /\ \E name \in expected_pkgs : VersionsOf(name, pkgs) # {}

====
